---- MODULE Spec2Model ----
(***************************************************************************)
(* Parametric Building Studio (src/agentic-app/src/app/page.tsx).          *)
(*                                                                         *)
(* The page keeps one BuildingConfig in React state, edits it through form *)
(* controls and the keyword matcher applyAiInference, and renders it into  *)
(* a Blender script with generateBlenderScript.                            *)
(*                                                                         *)
(* Representation.  A JavaScript string is a TLA+ string (TLC treats a     *)
(* string as a sequence of one-character strings: Len, SubSeq, \o).  A     *)
(* JavaScript number is an integer counting thousandths (Scale), so 3.6 is *)
(* 3600; the one number that is not a quantity, NaN, is the value NaN.     *)
(***************************************************************************)
EXTENDS Integers, Sequences, FiniteSets, TLC

VARIABLES
    config,          \* useState<BuildingConfig>
    aiPrompt,        \* useState("") : the Intent Mapper textarea
    aiSummary,       \* useState<string[]> : log of applied summaries
    statusMessage,   \* useState<string | null>
    timers,          \* pending setTimeout callbacks, in the order they were set
    pendingCopies,   \* clipboard writes awaited by handleCopy (the script passed)
    clipboard,       \* what the last successful clipboard write stored
    download,        \* the last file handed to the browser: [name, content]
    uncaught,        \* an exception left a handler uncaught
    nActions,        \* number of user events dispatched so far
    input,           \* argument of the function under test (function-level specs)
    output,          \* its result
    phase            \* "app" | "ready" | "done"

vars == <<config, aiPrompt, aiSummary, statusMessage, timers, pendingCopies,
          clipboard, download, uncaught, nActions,
          input, output, phase>>

appVars == <<config, aiPrompt, aiSummary, statusMessage, timers, pendingCopies,
             clipboard, download, uncaught, nActions>>

harnessVars == <<input, output, phase>>

----------------------------------------------------------------------------
(* Bounds of the model.                                                    *)

\* user events dispatched in one run of the page
MaxActions == 2
\* pending timers and pending clipboard writes
MaxPending == 2
\* length of the texts given to escapePythonString on its own
MaxLen == 4

----------------------------------------------------------------------------
(* Numbers.                                                                *)

\* thousandths: three decimal places of a JavaScript number are kept
Scale == 10 * 10 * 10

NaN == -1

IsNaN(v) == v = NaN

\* Math.max / Math.min: NaN if either argument is NaN
MathMax(a, b) == IF IsNaN(a) \/ IsNaN(b) THEN NaN ELSE IF a > b THEN a ELSE b

MathMin(a, b) == IF IsNaN(a) \/ IsNaN(b) THEN NaN ELSE IF a < b THEN a ELSE b

\* clamp without its upper bound
clampFromBelow(value, min, max) == MathMax(value, min)

clamp(value, min, max) == MathMin(MathMax(value, min), max)

\* value * (num / den), rounded to the nearest thousandth
Times(value, num, den) ==
    IF IsNaN(value) THEN NaN ELSE (2 * value * num + den) \div (2 * den)

NumberIsInteger(value) == ~IsNaN(value) /\ value % Scale = 0

\* A JavaScript number and a Python float are both the IEEE double nearest to
\* the decimal written. The operators below tell on which side of the decimal
\* v / 1000 its double lies; v is a positive number of thousandths below
\* 2048000.
RECURSIVE Pow2(_)
Pow2(n) == IF n = 0 THEN 1 ELSE 2 * Pow2(n - 1)

\* 2^n modulo 1000
RECURSIVE Pow2Mod(_)
Pow2Mod(n) == IF n = 0 THEN 1 ELSE (2 * Pow2Mod(n - 1)) % Scale

\* the binary exponent of v / 1000, plus 10: 2^(t - 10) <= v / 1000 < 2^(t - 9)
BinaryExponent(v) ==
    CHOOSE t \in 0..20 : Pow2(t) * Scale <= v * 1024 /\ v * 1024 < Pow2(t + 1) * Scale

\* the double nearest to v / 1000, minus v / 1000, in units of
\* 1 / (1000 * 2^(62 - BinaryExponent(v))): the 53-bit significand rounded to
\* the nearest (a tie cannot occur, 8 dividing both 1000 and the numerator)
DoubleError(v) ==
    IF v <= 0 THEN 0
    ELSE LET r == ((v % Scale) * Pow2Mod(62 - BinaryExponent(v))) % Scale
         IN  IF 2 * r < Scale THEN 0 - r ELSE Scale - r

\* DoubleError in one unit for all v: units of 1 / (1000 * 2^62)
ScaledDoubleError(v) == IF v <= 0 THEN 0 ELSE DoubleError(v) * Pow2(BinaryExponent(v))

----------------------------------------------------------------------------
(* Strings.                                                                *)

\* s[i - 1], the empty string outside the string
CharAt(s, i) == IF 1 <= i /\ i <= Len(s) THEN SubSeq(s, i, i) ELSE ""

Digits == {"0", "1", "2", "3", "4", "5", "6", "7", "8", "9"}

WhiteSpace == {" ", "\n", "\t", "\r"}

IsDigit(c) == c \in Digits

DigitVal(c) ==
    CASE c = "0" -> 0 [] c = "1" -> 1 [] c = "2" -> 2 [] c = "3" -> 3
      [] c = "4" -> 4 [] c = "5" -> 5 [] c = "6" -> 6 [] c = "7" -> 7
      [] c = "8" -> 8 [] c = "9" -> 9

AllDigits(s) == \A i \in 1..Len(s) : IsDigit(CharAt(s, i))

RECURSIVE ParseDigits(_)
ParseDigits(s) ==
    IF s = "" THEN 0
    ELSE ParseDigits(SubSeq(s, 1, Len(s) - 1)) * 10 + DigitVal(CharAt(s, Len(s)))

\* the digits after a decimal point, as thousandths (rounded at the fourth)
FractionValue(s) ==
    LET d(i) == IF i <= Len(s) THEN DigitVal(CharAt(s, i)) ELSE 0
    IN  d(1) * 100 + d(2) * 10 + d(3) + (IF d(4) >= 5 THEN 1 ELSE 0)

\* index of the first "." of s, or 0
DotIndex(s) ==
    IF \E i \in 1..Len(s) : CharAt(s, i) = "."
    THEN CHOOSE i \in 1..Len(s) :
            CharAt(s, i) = "." /\ \A j \in 1..(i - 1) : CharAt(s, j) # "."
    ELSE 0

\* s is digits, digits.digits, digits. or .digits
IsDecimalLiteral(s) ==
    LET dot == DotIndex(s)
    IN  IF dot = 0 THEN s # "" /\ AllDigits(s)
        ELSE /\ AllDigits(SubSeq(s, 1, dot - 1))
             /\ AllDigits(SubSeq(s, dot + 1, Len(s)))
             /\ Len(s) > 1

DecimalValue(s) ==
    LET dot == DotIndex(s)
    IN  IF dot = 0 THEN ParseDigits(s) * Scale
        ELSE ParseDigits(SubSeq(s, 1, dot - 1)) * Scale
             + FractionValue(SubSeq(s, dot + 1, Len(s)))

RECURSIVE TrimStart(_)
TrimStart(s) ==
    IF s # "" /\ CharAt(s, 1) \in WhiteSpace THEN TrimStart(SubSeq(s, 2, Len(s))) ELSE s

RECURSIVE TrimEnd(_)
TrimEnd(s) ==
    IF s # "" /\ CharAt(s, Len(s)) \in WhiteSpace
    THEN TrimEnd(SubSeq(s, 1, Len(s) - 1)) ELSE s

\* String.prototype.trim
Trim(s) == TrimEnd(TrimStart(s))

\* Number(text) of an unsigned decimal text: blank text is 0, a decimal literal
\* its value, anything else NaN
Number(text) ==
    LET t == Trim(text)
    IN  IF t = "" THEN 0
        ELSE IF IsDecimalLiteral(t) THEN DecimalValue(t)
        ELSE NaN

\* parseInt(digits, 10) and parseFloat(decimal) on a regex capture
parseInt(digits) == ParseDigits(digits) * Scale

parseFloat(decimal) == DecimalValue(decimal)

LowerOf(c) ==
    CASE c = "A" -> "a" [] c = "B" -> "b" [] c = "C" -> "c" [] c = "D" -> "d"
      [] c = "E" -> "e" [] c = "F" -> "f" [] c = "G" -> "g" [] c = "H" -> "h"
      [] c = "I" -> "i" [] c = "J" -> "j" [] c = "K" -> "k" [] c = "L" -> "l"
      [] c = "M" -> "m" [] c = "N" -> "n" [] c = "O" -> "o" [] c = "P" -> "p"
      [] c = "Q" -> "q" [] c = "R" -> "r" [] c = "S" -> "s" [] c = "T" -> "t"
      [] c = "U" -> "u" [] c = "V" -> "v" [] c = "W" -> "w" [] c = "X" -> "x"
      [] c = "Y" -> "y" [] c = "Z" -> "z" [] OTHER -> c

\* index of the first character of s from index `from` on that satisfies Test, or 0
FirstIndex(s, from, Test(_)) ==
    IF \E i \in from..Len(s) : Test(CharAt(s, i))
    THEN CHOOSE i \in from..Len(s) :
            Test(CharAt(s, i)) /\ \A j \in from..(i - 1) : ~Test(CharAt(s, j))
    ELSE 0

\* String.prototype.toLowerCase: every character by LowerOf
RECURSIVE toLowerCase(_)
toLowerCase(s) ==
    LET upper(c) == LowerOf(c) # c
        i == FirstIndex(s, 1, upper)
    IN  IF i = 0 THEN s
        ELSE SubSeq(s, 1, i - 1) \o LowerOf(CharAt(s, i))
                \o toLowerCase(SubSeq(s, i + 1, Len(s)))

\* String.prototype.includes
includes(s, word) ==
    \E i \in 1..(Len(s) - Len(word) + 1) : SubSeq(s, i, i + Len(word) - 1) = word

\* word occurs in s starting at index i
StartsAt(s, i, word) ==
    i + Len(word) - 1 <= Len(s) /\ SubSeq(s, i, i + Len(word) - 1) = word

\* String.prototype.replace(/c/g, by): every occurrence of character c, left to
\* right, what was put in not being looked at again
RECURSIVE replaceAll(_, _, _)
replaceAll(s, c, by) ==
    LET isC(x) == x = c
        i == FirstIndex(s, 1, isC)
    IN  IF i = 0 THEN s
        ELSE SubSeq(s, 1, i - 1) \o by \o replaceAll(SubSeq(s, i + 1, Len(s)), c, by)

\* a number as a template literal prints it: 18, 10.5
RECURSIVE NatToString(_)
NatToString(n) ==
    LET d == SubSeq("0123456789", (n % 10) + 1, (n % 10) + 1)
    IN  IF n < 10 THEN d ELSE NatToString(n \div 10) \o d

NumberToString(value) ==
    IF IsNaN(value) THEN "NaN"
    ELSE LET whole == value \div Scale
             frac  == value % Scale
             f3    == NatToString(1000 + frac)
             digits == SubSeq(f3, 2, 4)
             cut   == IF frac % 100 = 0 THEN 1 ELSE IF frac % 10 = 0 THEN 2 ELSE 3
         IN  IF frac = 0 THEN NatToString(whole)
             ELSE NatToString(whole) \o "." \o SubSeq(digits, 1, cut)

----------------------------------------------------------------------------
(* The configuration.                                                      *)

ColorKeys == {"base", "accent", "glazing", "balcony", "roof"}

FacadePatterns == {"grid", "stacked", "offset"}

BalconyFrequencies == {"none", "alternate", "every", "corners"}

RoofStyles == {"flat", "pitched", "sawtooth"}

\* the fields of BuildingConfig that hold a number
NumericFields ==
    {"floors", "floorHeight", "lobbyHeight", "width", "depth", "coreWidth",
     "coreDepth", "baseHeight", "structuralGrid", "unitsPerFloor", "windowModule",
     "windowWidth", "windowHeight", "spandrelHeight", "balconyDepth",
     "podiumLevels", "podiumSetback"}

TextFields == {"projectName", "narrative"}

SelectFields == {"facadePattern", "balconyFrequency", "roofStyle"}

BooleanFields ==
    {"includePodium", "hasAtrium", "addRooftopGarden", "includeSolarPanels",
     "includeLightShelves"}

Fields == TextFields \cup NumericFields \cup SelectFields \cup BooleanFields \cup {"colors"}

defaultConfig ==
    [projectName |-> "Aurora Habitat Tower",
     narrative |-> "A mixed-use tower prioritizing daylight, biophilic terraces, and a flexible core for future adaptation.",
     floors |-> 18 * Scale,
     floorHeight |-> 3600,
     lobbyHeight |-> 6 * Scale,
     width |-> 38 * Scale,
     depth |-> 26 * Scale,
     coreWidth |-> 10 * Scale,
     coreDepth |-> 8 * Scale,
     baseHeight |-> 1200,
     structuralGrid |-> 7500,
     unitsPerFloor |-> 8 * Scale,
     facadePattern |-> "grid",
     windowModule |-> 3200,
     windowWidth |-> 2600,
     windowHeight |-> 2400,
     spandrelHeight |-> 800,
     balconyDepth |-> 2100,
     balconyFrequency |-> "alternate",
     roofStyle |-> "flat",
     podiumLevels |-> 3 * Scale,
     podiumSetback |-> 4 * Scale,
     includePodium |-> TRUE,
     hasAtrium |-> TRUE,
     addRooftopGarden |-> TRUE,
     includeSolarPanels |-> TRUE,
     includeLightShelves |-> FALSE,
     colors |-> [base |-> "#4d5c6f", accent |-> "#c48f5a", glazing |-> "#85c3ff",
                 balcony |-> "#f2ede4", roof |-> "#37414f"]]

\* the min and max attributes of each numeric form control
FormRange ==
    [floors         |-> [min |-> 3 * Scale, max |-> 80 * Scale],
     floorHeight    |-> [min |-> 2700,      max |-> 8 * Scale],
     lobbyHeight    |-> [min |-> 3 * Scale, max |-> 12 * Scale],
     width          |-> [min |-> 12 * Scale, max |-> 120 * Scale],
     depth          |-> [min |-> 12 * Scale, max |-> 120 * Scale],
     coreWidth      |-> [min |-> 4 * Scale, max |-> 20 * Scale],
     coreDepth      |-> [min |-> 4 * Scale, max |-> 20 * Scale],
     unitsPerFloor  |-> [min |-> 2 * Scale, max |-> 40 * Scale],
     baseHeight     |-> [min |-> 0,         max |-> 6 * Scale],
     structuralGrid |-> [min |-> 4 * Scale, max |-> 12 * Scale],
     windowModule   |-> [min |-> 2 * Scale, max |-> 6 * Scale],
     windowWidth    |-> [min |-> 1 * Scale, max |-> 5 * Scale],
     windowHeight   |-> [min |-> 1500,      max |-> 4500],
     spandrelHeight |-> [min |-> 200,       max |-> 2 * Scale],
     balconyDepth   |-> [min |-> 0,         max |-> 4 * Scale],
     podiumLevels   |-> [min |-> 1 * Scale, max |-> 6 * Scale],
     podiumSetback  |-> [min |-> 0,         max |-> 12 * Scale]]

InFormRange(field, value) ==
    /\ ~IsNaN(value)
    /\ FormRange[field].min <= value
    /\ value <= FormRange[field].max

\* mergeColors with the overlay's colors spread over the default colors
mergeColorsOverDefault(prev, partial) ==
    [k \in ColorKeys |->
        IF "colors" \in DOMAIN partial /\ k \in DOMAIN partial.colors
        THEN partial.colors[k]
        ELSE defaultConfig.colors[k]]

\* the colors sub-record of updateConfig's result: { ...prev.colors, ...(partial.colors ?? {}) }
mergeColors(prev, partial) ==
    [k \in ColorKeys |->
        IF "colors" \in DOMAIN partial /\ k \in DOMAIN partial.colors
        THEN partial.colors[k]
        ELSE prev.colors[k]]

\* updateConfig with its spreads swapped, { ...partial, ...prev }: prev wins
updateConfigPrevWins(prev, partial) ==
    [f \in Fields |-> prev[f]]

\* the value updateConfig stores: { ...prev, ...partial, colors: {...} }
updateConfig(prev, partial) ==
    [f \in Fields |->
        IF f = "colors" THEN mergeColors(prev, partial)
        ELSE IF f \in DOMAIN partial THEN partial[f]
        ELSE prev[f]]

\* a one-field overlay { [field]: value }
Only(field, value) == [f \in {field} |-> value]

----------------------------------------------------------------------------
(* The script compiler.                                                    *)

\* escapePythonString with its two replacements in the other order
escapePythonStringQuotesFirst(value) ==
    replaceAll(replaceAll(value, "\"", "\\\""), "\\", "\\\\")

\* value.replace(/\\/g, "\\\\").replace(/"/g, '\\"')
escapePythonString(value) == replaceAll(replaceAll(value, "\\", "\\\\"), "\"", "\\\"")

HexDigits == "0123456789abcdef"

IsHexDigit(c) == \E i \in 1..16 : CharAt(HexDigits, i) = LowerOf(c)

HexVal(c) == (CHOOSE i \in 1..16 : CharAt(HexDigits, i) = LowerOf(c)) - 1

\* parseInt(chunk, 16) of a chunk of one or two characters: the leading hex
\* digits, NaN when there is none
parseInt16(chunk) ==
    IF chunk = "" \/ ~IsHexDigit(CharAt(chunk, 1)) THEN NaN
    ELSE IF Len(chunk) >= 2 /\ IsHexDigit(CharAt(chunk, 2))
         THEN 16 * HexVal(CharAt(chunk, 1)) + HexVal(CharAt(chunk, 2))
         ELSE HexVal(CharAt(chunk, 1))

\* hex.replace("#", ""): the first "#" only
removeFirstHash(hex) ==
    IF \E i \in 1..Len(hex) : CharAt(hex, i) = "#"
    THEN LET i == CHOOSE k \in 1..Len(hex) :
                    CharAt(hex, k) = "#" /\ \A j \in 1..(k - 1) : CharAt(hex, j) # "#"
         IN  SubSeq(hex, 1, i - 1) \o SubSeq(hex, i + 1, Len(hex))
    ELSE hex

\* hexToRgb without the doubling of a 3-digit shorthand
hexToRgbPairsOnly(hex) ==
    LET cleaned == removeFirstHash(hex)
        chunk(n) ==
            IF cleaned = "" THEN "00"
            ELSE SubSeq(cleaned, 2 * n - 1, IF 2 * n <= Len(cleaned) THEN 2 * n ELSE Len(cleaned))
    IN  [r |-> parseInt16(chunk(1)), g |-> parseInt16(chunk(2)), b |-> parseInt16(chunk(3))]

\* the channels { r, g, b } as 0..255 (NaN for a chunk that is no hex number or
\* is missing)
hexToRgb(hex) ==
    LET cleaned == removeFirstHash(hex)
        chunk(n) ==
            IF Len(cleaned) = 3 THEN CharAt(cleaned, n) \o CharAt(cleaned, n)
            ELSE IF cleaned = "" THEN "00"
            ELSE SubSeq(cleaned, 2 * n - 1, IF 2 * n <= Len(cleaned) THEN 2 * n ELSE Len(cleaned))
    IN  [r |-> parseInt16(chunk(1)), g |-> parseInt16(chunk(2)), b |-> parseInt16(chunk(3))]

\* (channel / 255).toFixed(4)
normalize(channel) ==
    IF IsNaN(channel) THEN "NaN"
    ELSE LET n == (2 * channel * 10000 + 255) \div (2 * 255)
         IN  NatToString(n \div 10000) \o "." \o SubSeq(NatToString(10000 + (n % 10000)), 2, 5)

colorToPythonTuple(hex) ==
    LET rgb == hexToRgb(hex)
    IN  "(" \o normalize(rgb.r) \o ", " \o normalize(rgb.g) \o ", "
            \o normalize(rgb.b) \o ", 1.0)"

\* value.toFixed(2): the hundredth nearest to the double; of two equally near
\* the larger, so a final 5 goes up unless the double lies below the decimal
toFixed2(value) ==
    LET last == value % 10
        up == last > 5 \/ (last = 5 /\ DoubleError(value) >= 0)
        h == (value \div 10) + (IF up THEN 1 ELSE 0)
    IN  NatToString(h \div 100) \o "." \o SubSeq(NatToString(100 + (h % 100)), 2, 3)

\* formatNumber with two decimals for every value
formatNumberFixed(value) ==
    IF IsNaN(value) THEN "NaN" ELSE toFixed2(value)

\* Number.isInteger(value) ? value.toFixed(0) : value.toFixed(2)
formatNumber(value) ==
    IF IsNaN(value) THEN "NaN"
    ELSE IF NumberIsInteger(value) THEN NatToString(value \div Scale)
    ELSE toFixed2(value)

\* pythonBoolean reading the prompt text of the page
pythonBooleanByPrompt(value) == IF value /\ aiPrompt = "" THEN "True" ELSE "False"

\* const pythonBoolean = (value: boolean) => (value ? "True" : "False")
pythonBoolean(value) == IF value THEN "True" ELSE "False"

\* The text generateBlenderScript returns is a fixed template; the record holds
\* what the template's placeholders are filled with, in the template's order.
generateBlenderScript(cfg) ==
    LET name == escapePythonString(cfg.projectName)
        story == escapePythonString(cfg.narrative)
    IN  [doc_generated_for |-> name,
         doc_narrative |-> story,
         project_name |-> name,
         narrative |-> story,
         floors |-> formatNumber(cfg.floors),
         units_per_floor |-> formatNumber(cfg.unitsPerFloor),
         roof_style |-> cfg.roofStyle,
         include_podium |-> pythonBoolean(cfg.includePodium),
         has_atrium |-> pythonBoolean(cfg.hasAtrium),
         add_rooftop_garden |-> pythonBoolean(cfg.addRooftopGarden),
         include_solar_panels |-> pythonBoolean(cfg.includeSolarPanels),
         dimensions |->
            [width |-> formatNumber(cfg.width),
             depth |-> formatNumber(cfg.depth),
             floor_height |-> formatNumber(cfg.floorHeight),
             lobby_height |-> formatNumber(cfg.lobbyHeight),
             base_height |-> formatNumber(cfg.baseHeight),
             core_width |-> formatNumber(cfg.coreWidth),
             core_depth |-> formatNumber(cfg.coreDepth),
             podium_levels |-> formatNumber(cfg.podiumLevels),
             podium_setback |-> formatNumber(cfg.podiumSetback)],
         facade |->
            [pattern |-> cfg.facadePattern,
             module |-> formatNumber(cfg.windowModule),
             window_width |-> formatNumber(cfg.windowWidth),
             window_height |-> formatNumber(cfg.windowHeight),
             spandrel_height |-> formatNumber(cfg.spandrelHeight),
             balcony_depth |-> formatNumber(cfg.balconyDepth),
             balcony_frequency |-> cfg.balconyFrequency,
             include_light_shelves |-> pythonBoolean(cfg.includeLightShelves)],
         colors |-> [k \in ColorKeys |-> colorToPythonTuple(cfg.colors[k])]]

----------------------------------------------------------------------------
(* The Python of the template: what build(CONFIG) does with the numbers    *)
(* the compiler wrote into CONFIG.                                         *)

\* a number of CONFIG as Python reads the literal: its value in thousandths,
\* and whether the literal is an int (no decimal point) or a float
PyValue(literal) == Number(literal)

PyIsInt(literal) == AllDigits(literal)

\* int(a // b) for a >= 0 and b > 0: the floor of the quotient of the two
\* doubles; it is one less than the quotient of the decimals when that is a
\* whole number q and the double of a lies below q times the double of b
PyFloorDiv(a, b) ==
    LET q == a \div b
    IN  IF a % b # 0 \/ a = 0 THEN q
        ELSE IF ScaledDoubleError(a) >= q * ScaledDoubleError(b) THEN q ELSE q - 1

PyMax(a, b) == IF b > a THEN b ELSE a

PyRange(n) == 0..(n - 1)

Sides == {"front", "back", "left", "right"}

\* add_windows: repetitions = max(1, int(width // module)), the module being
\* max(1.0, facade["module"]) and width the extent of the side
repetitions(CONFIG, side) ==
    LET module == PyMax(1 * Scale, PyValue(CONFIG.facade.module))
        is_front_back == side \in {"front", "back"}
        width == IF is_front_back THEN PyValue(CONFIG.dimensions.width)
                 ELSE PyValue(CONFIG.dimensions.depth)
    IN  PyMax(1, PyFloorDiv(width, module))

\* build: the test that guards the balconies of a level
balcony_level(CONFIG, level) ==
    /\ CONFIG.facade.balcony_frequency # "none"
    /\ level > 0
    /\ PyValue(CONFIG.facade.balcony_depth) > 50

\* build: module_count = max(3, int(width // module))
module_count(CONFIG) ==
    PyMax(3, PyFloorDiv(PyValue(CONFIG.dimensions.width), PyValue(CONFIG.facade.module)))

\* build: corner_cols = max(2, module_count)
corner_cols(CONFIG) == PyMax(2, module_count(CONFIG))

\* create_balcony returns early, creating nothing, when balcony_depth <= 0.05
create_balcony(CONFIG, level, col_index, total_cols) ==
    IF PyValue(CONFIG.facade.balcony_depth) <= 50 THEN {}
    ELSE {[level |-> level, col_index |-> col_index, total_cols |-> total_cols]}

\* the balconies build creates on one level
level_balconies(CONFIG, level) ==
    LET frequency == CONFIG.facade.balcony_frequency
    IN  IF ~balcony_level(CONFIG, level) THEN {}
        ELSE IF frequency = "every" \/ (frequency = "alternate" /\ level % 2 = 0)
        THEN UNION {create_balcony(CONFIG, level, col, module_count(CONFIG)) :
                       col \in PyRange(module_count(CONFIG))}
        ELSE IF frequency = "corners"
        THEN UNION {create_balcony(CONFIG, level, col, corner_cols(CONFIG)) :
                       col \in {0, corner_cols(CONFIG) - 1}}
        ELSE {}

\* the literals of CONFIG that Python cannot read: NaN is no name of the script
NumberHoles(CONFIG) ==
    {CONFIG.floors, CONFIG.units_per_floor}
        \cup {CONFIG.dimensions[k] : k \in DOMAIN CONFIG.dimensions}
        \cup {CONFIG.facade[k] : k \in {"module", "window_width", "window_height",
                                         "spandrel_height", "balcony_depth"}}

\* the first level at which build raises; -1 if it raises before the first
\* level: CONFIG holding a NaN, or range() given a float by create_podium
\* (podium_levels) or by build (floors); the number of floors if it does not
\* raise. Dividing by a module of 0 raises ZeroDivisionError.
raising_level(CONFIG) ==
    IF \/ "NaN" \in NumberHoles(CONFIG)
       \/ CONFIG.include_podium = "True" /\ ~PyIsInt(CONFIG.dimensions.podium_levels)
       \/ ~PyIsInt(CONFIG.floors)
    THEN 0 - 1
    ELSE LET floors == PyValue(CONFIG.floors) \div Scale
             raises(level) == balcony_level(CONFIG, level)
                                 /\ PyValue(CONFIG.facade.module) = 0
         IN  IF \E level \in PyRange(floors) : raises(level)
             THEN CHOOSE level \in PyRange(floors) :
                     raises(level) /\ \A l \in PyRange(level) : ~raises(l)
             ELSE floors

\* build(CONFIG): whether it raised, the windows of each level and side and
\* the balconies it created before it returned or raised
build(CONFIG) ==
    LET stop == raising_level(CONFIG)
        floors == IF stop < 0 THEN 0 ELSE PyValue(CONFIG.floors) \div Scale
    IN  [raised |-> stop < floors,
         windows |-> [level \in {l \in PyRange(floors) : l <= stop} |->
                        [side \in Sides |-> repetitions(CONFIG, side)]],
         balconies |-> UNION {level_balconies(CONFIG, level) :
                                 level \in {l \in PyRange(floors) : l < stop}}]

\* the script memoised with no dependency: that of the first render
scriptOfFirstRender == generateBlenderScript(defaultConfig)

\* const script = useMemo(() => generateBlenderScript(config), [config])
script == generateBlenderScript(config)

----------------------------------------------------------------------------
(* The Intent Mapper.                                                      *)

\* the first index >= i of s whose character is not in set (Len(s) + 1 if none)
RECURSIVE SkipChars(_, _, _)
SkipChars(s, i, set) ==
    IF i <= Len(s) /\ CharAt(s, i) \in set THEN SkipChars(s, i + 1, set) ELSE i

\* the result of String.prototype.match with one capture group: found, and
\* the group of the leftmost match
NoMatch == [found |-> FALSE, group |-> ""]

LeftmostMatch(s, MatchesAt(_), GroupEnd(_)) ==
    IF \E i \in 1..Len(s) : MatchesAt(i)
    THEN LET i == CHOOSE k \in 1..Len(s) :
                    MatchesAt(k) /\ \A j \in 1..(k - 1) : ~MatchesAt(j)
         IN  [found |-> TRUE, group |-> SubSeq(s, i, GroupEnd(i) - 1)]
    ELSE NoMatch

\* the index after \d+ matched greedily from i
DigitsEnd(s, i) == SkipChars(s, i, Digits)

\* the index after \d+(?:\.\d+)? matched greedily from i
DecimalEnd(s, i) ==
    LET e == DigitsEnd(s, i)
    IN  IF CharAt(s, e) = "." /\ IsDigit(CharAt(s, e + 1))
        THEN DigitsEnd(s, e + 1) ELSE e

\* /(\d+)[-\s]*(story|storey|floor)s?/
floorRegex(s) ==
    LET at(i) ==
            /\ IsDigit(CharAt(s, i))
            /\ LET k == SkipChars(s, DigitsEnd(s, i), WhiteSpace \cup {"-"})
               IN  StartsAt(s, k, "story") \/ StartsAt(s, k, "storey")
                      \/ StartsAt(s, k, "floor")
        end(i) == DigitsEnd(s, i)
    IN  LeftmostMatch(s, at, end)

\* \s*m(?:eter)?s?\s* followed by one of the words `last`, from index p
MetresThen(s, p, last) ==
    LET k == SkipChars(s, p, WhiteSpace)
    IN  /\ StartsAt(s, k, "m")
        /\ \E unit \in {"", "eter", "s", "eters"} :
              /\ StartsAt(s, k + 1, unit)
              /\ \E w \in last :
                    StartsAt(s, SkipChars(s, k + 1 + Len(unit), WhiteSpace), w)

\* /(\d+(?:\.\d+)?)\s*m(?:eter)?s?\s*wide/
widthRegex(s) ==
    LET at(i) == IsDigit(CharAt(s, i)) /\ MetresThen(s, DecimalEnd(s, i), {"wide"})
        end(i) == DecimalEnd(s, i)
    IN  LeftmostMatch(s, at, end)

\* /(\d+(?:\.\d+)?)\s*m(?:eter)?s?\s*(deep|depth)/
depthRegex(s) ==
    LET at(i) ==
            IsDigit(CharAt(s, i)) /\ MetresThen(s, DecimalEnd(s, i), {"deep", "depth"})
        end(i) == DecimalEnd(s, i)
    IN  LeftmostMatch(s, at, end)

\* /(\d+)\s*units?/
unitRegex(s) ==
    LET at(i) ==
            /\ IsDigit(CharAt(s, i))
            /\ StartsAt(s, SkipChars(s, DigitsEnd(s, i), WhiteSpace), "unit")
        end(i) == DigitsEnd(s, i)
    IN  LeftmostMatch(s, at, end)

NoUpdates == [f \in {} |-> 0]

\* a trigger that did not fire
Idle == [fired |-> FALSE, updates |-> NoUpdates, summary |-> ""]

Fire(updates, summary) == [fired |-> TRUE, updates |-> updates, summary |-> summary]

\* the floor-count trigger: if (floorMatch) ... else if supertall ... else if
\* tall ... else if low-rise or mid-rise
floorTrigger(normalized, current) ==
    LET floorMatch == floorRegex(normalized)
        floors     == clamp(parseInt(floorMatch.group), 1 * Scale, 80 * Scale)
    IN  IF floorMatch.found
        THEN Fire(Only("floors", floors),
                  "Set tower to " \o NumberToString(floors) \o " floors.")
        ELSE IF includes(normalized, "supertall")
        THEN Fire(Only("floors", clamp(current.floors + 40 * Scale, 30 * Scale, 120 * Scale)),
                  "Adjusted height to supertall proportion.")
        ELSE IF includes(normalized, "tall")
        THEN Fire(Only("floors", clamp(current.floors + 8 * Scale, 6 * Scale, 80 * Scale)),
                  "Raised overall height.")
        ELSE IF includes(normalized, "low-rise") \/ includes(normalized, "mid-rise")
        THEN Fire(Only("floors", clamp(current.floors, 4 * Scale, 12 * Scale)),
                  "Shaped tower to mid-rise scale.")
        ELSE Idle

\* the balcony frequency with "corner" tested before "every"
balconyRhythmCornerFirst(normalized) ==
    IF includes(normalized, "corner") THEN "corners"
    ELSE IF includes(normalized, "every") THEN "every"
    ELSE "alternate"

\* normalized.includes("every") ? "every"
\*     : normalized.includes("corner") ? "corners" : "alternate"
balconyRhythm(normalized) ==
    IF includes(normalized, "every") THEN "every"
    ELSE IF includes(normalized, "corner") THEN "corners"
    ELSE "alternate"

\* The triggers of applyAiInference in the order of the code, each with what
\* it assigns to `updates` and what it pushes on `summaryParts`.
Triggers(normalized, current) ==
    LET widthMatch == widthRegex(normalized)
        depthMatch == depthRegex(normalized)
        unitMatch  == unitRegex(normalized)
        widthValue == clamp(parseFloat(widthMatch.group), 10 * Scale, 120 * Scale)
        depthValue == clamp(parseFloat(depthMatch.group), 10 * Scale, 120 * Scale)
        units      == clamp(parseInt(unitMatch.group), 2 * Scale, 40 * Scale)
        palette(base, accent, glazing) ==
            [current.colors EXCEPT !.base = base, !.accent = accent, !.glazing = glazing]
    IN  << \* 1: floor count
           floorTrigger(normalized, current),
           \* 2: width
           IF widthMatch.found
           THEN Fire(Only("width", widthValue),
                     "Adjusted width to " \o NumberToString(widthValue) \o "m.")
           ELSE Idle,
           \* 3: depth
           IF depthMatch.found
           THEN Fire(Only("depth", depthValue),
                     "Adjusted depth to " \o NumberToString(depthValue) \o "m.")
           ELSE Idle,
           \* 4: slender
           IF includes(normalized, "slender")
           THEN Fire([width |-> clamp(Times(current.width, 85, 100), 12 * Scale, current.width),
                      depth |-> clamp(Times(current.depth, 85, 100), 12 * Scale, current.depth)],
                     "Slenderized the floor plate.")
           ELSE Idle,
           \* 5: atrium
           IF includes(normalized, "atrium")
           THEN Fire(Only("hasAtrium", TRUE), "Enabled multi-level atrium.")
           ELSE Idle,
           \* 6: podium
           IF includes(normalized, "podium")
           THEN Fire([includePodium |-> TRUE,
                      podiumLevels |-> MathMax(current.podiumLevels, 2 * Scale)],
                     "Activated urban podium interface.")
           ELSE Idle,
           \* 7: garden
           IF includes(normalized, "garden") \/ includes(normalized, "green roof")
           THEN Fire(Only("addRooftopGarden", TRUE), "Reserved rooftop for green space.")
           ELSE Idle,
           \* 8: solar
           IF includes(normalized, "solar")
           THEN Fire(Only("includeSolarPanels", TRUE), "Integrated rooftop solar arrays.")
           ELSE Idle,
           \* 9: balcony
           IF includes(normalized, "balcon")
           THEN Fire(Only("balconyFrequency", balconyRhythm(normalized)),
                     "Reconfigured balcony rhythm.")
           ELSE Idle,
           \* 10: facade palette
           IF includes(normalized, "glass curtain")
           THEN Fire([facadePattern |-> "grid",
                      colors |-> palette("#2b3a55", "#546a89", "#a7d9ff")],
                     "Shifted to glass curtain wall aesthetic.")
           ELSE IF includes(normalized, "brick")
           THEN Fire([facadePattern |-> "stacked",
                      colors |-> palette("#884a39", "#d46f4d", "#93c6ff")],
                     "Applied brick-inspired palette.")
           ELSE IF includes(normalized, "timber") \/ includes(normalized, "wood")
           THEN Fire([facadePattern |-> "offset",
                      colors |-> palette("#8c6b3e", "#d9b382", "#9bc1ff")],
                     "Shifted to warm timber articulation.")
           ELSE Idle,
           \* 11: light shelves
           IF includes(normalized, "light shelves")
           THEN Fire(Only("includeLightShelves", TRUE), "Added daylight shelves to facade.")
           ELSE Idle,
           \* 12: roof style
           IF includes(normalized, "pitched roof")
           THEN Fire(Only("roofStyle", "pitched"), "Configured pitched roof profile.")
           ELSE IF includes(normalized, "sawtooth")
           THEN Fire(Only("roofStyle", "sawtooth"), "Configured sawtooth roof profile.")
           ELSE IF includes(normalized, "flat roof")
           THEN Fire(Only("roofStyle", "flat"), "Kept clean flat roofline.")
           ELSE Idle,
           \* 13: lobby
           IF includes(normalized, "generous lobby") \/ includes(normalized, "grand lobby")
           THEN Fire(Only("lobbyHeight",
                          clamp(Times(current.lobbyHeight, 12, 10), 4500, 12 * Scale)),
                     "Expanded lobby volume.")
           ELSE Idle,
           \* 14: units per floor
           IF unitMatch.found
           THEN Fire(Only("unitsPerFloor", units),
                     "Set " \o NumberToString(units) \o " flexible units per typical floor.")
           ELSE Idle >>

\* the assignments of the triggers among the first n, a later one overwriting
\* an earlier one
RECURSIVE AssignAll(_, _)
AssignAll(triggers, n) ==
    IF n = 0 THEN NoUpdates
    ELSE triggers[n].updates @@ AssignAll(triggers, n - 1)

\* summaryParts filled with unshift in place of push: the last trigger first
RECURSIVE PushAllNewestFirst(_, _)
PushAllNewestFirst(triggers, n) ==
    IF n = 0 THEN <<>>
    ELSE IF triggers[n].fired
         THEN <<triggers[n].summary>> \o PushAllNewestFirst(triggers, n - 1)
         ELSE PushAllNewestFirst(triggers, n - 1)

\* summaryParts: the summaries of the triggers that fired, in order
RECURSIVE PushAll(_, _)
PushAll(triggers, n) ==
    IF n = 0 THEN <<>>
    ELSE IF triggers[n].fired
         THEN Append(PushAll(triggers, n - 1), triggers[n].summary)
         ELSE PushAll(triggers, n - 1)

\* Array.prototype.join(" ")
RECURSIVE join(_)
join(parts) ==
    IF parts = <<>> THEN ""
    ELSE IF Len(parts) = 1 THEN parts[1]
    ELSE join(SubSeq(parts, 1, Len(parts) - 1)) \o " " \o parts[Len(parts)]

\* applyAiInference returning the instruction as the summary of a blank one
applyAiInferenceEchoesBlank(prompt, current) ==
    LET normalized == toLowerCase(Trim(prompt))
        triggers == Triggers(normalized, current)
    IN  IF normalized = "" THEN [updates |-> NoUpdates, summary |-> prompt]
        ELSE [updates |-> AssignAll(triggers, Len(triggers)),
              summary |-> join(PushAll(triggers, Len(triggers)))]

applyAiInference(prompt, current) ==
    LET normalized == toLowerCase(Trim(prompt))
        triggers == Triggers(normalized, current)
    IN  IF normalized = "" THEN [updates |-> NoUpdates, summary |-> ""]
        ELSE [updates |-> AssignAll(triggers, Len(triggers)),
              summary |-> join(PushAll(triggers, Len(triggers)))]

----------------------------------------------------------------------------
(* The page: its state, what the user can enter, and its handlers.         *)

\* statusMessage === null
null == "null"

\* texts typed into the project name input and the narrative textarea
NameTexts == {"", "Block \"A\" \\ B"}

NarrativeTexts == {"Two wings.\nOne court."}

\* values the Floors slider (type="range", min 3, max 80) can deliver
RangeTexts == {"3", "80"}

\* values a type="number" input can deliver: the text typed, or the empty
\* string when the text typed is not a number
NumberTexts == {"", "4.5", "500"}

\* values a type="color" input can deliver
ColorTexts == {"#000000"}

\* instructions typed into the Intent Mapper textarea
PromptTexts == {"  ", "make it calm", "1 floor, 10m wide", "Supertall brick podium"}

SelectOptions ==
    [facadePattern |-> FacadePatterns,
     balconyFrequency |-> BalconyFrequencies,
     roofStyle |-> RoofStyles]

\* the type="number" inputs; the two podium inputs are disabled without a podium
NumberInputs == NumericFields \ {"floors"}

Enabled(field) ==
    field \in {"podiumLevels", "podiumSetback"} => config.includePodium

\* the page as first rendered
AppInit ==
    /\ config = defaultConfig
    /\ aiPrompt = ""
    /\ aiSummary = <<>>
    /\ statusMessage = null
    /\ timers = <<>>
    /\ pendingCopies = <<>>
    /\ clipboard = ""
    /\ download = <<>>
    /\ uncaught = FALSE
    /\ nActions = 0

Init ==
    /\ AppInit
    /\ input = <<>>
    /\ output = <<>>
    /\ phase = "app"

\* the browser dispatches one more user event
Dispatch ==
    /\ phase = "app"
    /\ nActions < MaxActions
    /\ nActions' = nActions + 1

\* a handler that sets its message and schedules nothing
setTimeoutDropped(by, delay) ==
    /\ Len(timers) < MaxPending
    /\ timers' = timers

\* setTimeout(() => setStatusMessage(null), delay)
setTimeout(by, delay) ==
    /\ Len(timers) < MaxPending
    /\ timers' = Append(timers, [by |-> by, delay |-> delay])

\* onChange of the project name input and of the narrative textarea
TextOnChange(field, text) ==
    /\ Dispatch
    /\ config' = updateConfig(config, Only(field, text))
    /\ UNCHANGED <<aiPrompt, aiSummary, statusMessage, timers, pendingCopies,
                   clipboard, download, uncaught, harnessVars>>

\* onChange of the Floors slider and of every type="number" input:
\* updateConfig({ field: Number(event.target.value) })
NumberOnChange(field, text) ==
    /\ Enabled(field)
    /\ Dispatch
    /\ config' = updateConfig(config, Only(field, Number(text)))
    /\ UNCHANGED <<aiPrompt, aiSummary, statusMessage, timers, pendingCopies,
                   clipboard, download, uncaught, harnessVars>>

\* onChange of a select: the option chosen differs from the one shown
SelectOnChange(field, option) ==
    /\ option # config[field]
    /\ Dispatch
    /\ config' = updateConfig(config, Only(field, option))
    /\ UNCHANGED <<aiPrompt, aiSummary, statusMessage, timers, pendingCopies,
                   clipboard, download, uncaught, harnessVars>>

\* onChange of a checkbox: event.target.checked is the box's new state
CheckboxOnChange(field) ==
    /\ Dispatch
    /\ config' = updateConfig(config, Only(field, ~config[field]))
    /\ UNCHANGED <<aiPrompt, aiSummary, statusMessage, timers, pendingCopies,
                   clipboard, download, uncaught, harnessVars>>

\* onChange of a color input: updateConfig({ colors: { ...config.colors, key: value } })
ColorOnChange(key, hex) ==
    /\ hex # config.colors[key]
    /\ Dispatch
    /\ config' = updateConfig(config, Only("colors", [config.colors EXCEPT ![key] = hex]))
    /\ UNCHANGED <<aiPrompt, aiSummary, statusMessage, timers, pendingCopies,
                   clipboard, download, uncaught, harnessVars>>

\* onChange of the Intent Mapper textarea: setAiPrompt(event.target.value)
PromptOnChange(text) ==
    /\ text # aiPrompt
    /\ Dispatch
    /\ aiPrompt' = text
    /\ UNCHANGED <<config, aiSummary, statusMessage, timers, pendingCopies,
                   clipboard, download, uncaught, harnessVars>>

\* handleReset restoring every default but the colors
handleResetKeepsColors ==
    /\ Dispatch
    /\ config' = [defaultConfig EXCEPT !.colors = config.colors]
    /\ aiSummary' = <<>>
    /\ statusMessage' = "Configuration reset."
    /\ setTimeout("reset", 2000)
    /\ UNCHANGED <<aiPrompt, pendingCopies, clipboard, download, uncaught,
                   harnessVars>>

handleReset ==
    /\ Dispatch
    /\ config' = defaultConfig
    /\ aiSummary' = <<>>
    /\ statusMessage' = "Configuration reset."
    /\ setTimeout("reset", 2000)
    /\ UNCHANGED <<aiPrompt, pendingCopies, clipboard, download, uncaught,
                   harnessVars>>

\* [summary, ...prev].slice(0, 5)
pushSummary(summary, prev) == SubSeq(<<summary>> \o prev, 1, IF Len(prev) >= 5 THEN 5 ELSE Len(prev) + 1)

\* the overlay of handleApplyAi without the spread of result.updates
aiOverlayNarrativeOnly(updates) ==
    Only("narrative", config.narrative \o "\n\nPrompt: " \o Trim(aiPrompt))

\* the overlay handleApplyAi passes to updateConfig:
\* { ...updates, narrative: `${config.narrative}\n\nPrompt: ${aiPrompt.trim()}` }
aiOverlay(updates) ==
    Only("narrative", config.narrative \o "\n\nPrompt: " \o Trim(aiPrompt)) @@ updates

\* handleApplyAi without the early return taken on an empty overlay
handleApplyAiNoEarlyReturn ==
    LET result == applyAiInference(aiPrompt, config)
    IN  /\ Dispatch
        /\ config' = updateConfig(config, aiOverlay(result.updates))
        /\ aiSummary' = IF result.summary # ""
                        THEN pushSummary(result.summary, aiSummary)
                        ELSE aiSummary
        /\ aiPrompt' = ""
        /\ statusMessage' = "AI design move applied."
        /\ setTimeout("applyAi", 2200)
        /\ UNCHANGED <<pendingCopies, clipboard, download, uncaught, harnessVars>>

handleApplyAi ==
    LET result == applyAiInference(aiPrompt, config)
    IN  /\ Dispatch
        /\ IF DOMAIN result.updates = {}
           THEN /\ statusMessage' = "No actionable design moves detected."
                /\ setTimeout("applyAi", 2200)
                /\ UNCHANGED <<config, aiSummary, aiPrompt>>
           ELSE /\ config' = updateConfig(config, aiOverlay(result.updates))
                /\ aiSummary' = IF result.summary # ""
                                THEN pushSummary(result.summary, aiSummary)
                                ELSE aiSummary
                /\ aiPrompt' = ""
                /\ statusMessage' = "AI design move applied."
                /\ setTimeout("applyAi", 2200)
        /\ UNCHANGED <<pendingCopies, clipboard, download, uncaught, harnessVars>>

\* handleCopy up to its await: navigator.clipboard.writeText(script) is called and
\* the handler suspends; where the call itself throws (no clipboard object) the
\* catch block runs at once
handleCopy ==
    /\ Dispatch
    /\ \/ /\ Len(pendingCopies) < MaxPending
          /\ pendingCopies' = Append(pendingCopies, script)
          /\ UNCHANGED <<statusMessage, timers>>
       \/ /\ statusMessage' = "Clipboard unavailable in this browser."
          /\ setTimeout("copy", 2400)
          /\ UNCHANGED pendingCopies
    /\ UNCHANGED <<config, aiPrompt, aiSummary, clipboard, download, uncaught,
                   harnessVars>>

RemoveAt(seq, i) == SubSeq(seq, 1, i - 1) \o SubSeq(seq, i + 1, Len(seq))

\* handleCopy after its await, the write having succeeded
clipboardResolves(i) ==
    /\ phase = "app"
    /\ clipboard' = pendingCopies[i]
    /\ pendingCopies' = RemoveAt(pendingCopies, i)
    /\ statusMessage' = "Script copied to clipboard."
    /\ setTimeout("copy", 2400)
    /\ UNCHANGED <<config, aiPrompt, aiSummary, download, uncaught,
                   nActions, harnessVars>>

\* handleCopy after its await, the write having been rejected
clipboardRejects(i) ==
    /\ phase = "app"
    /\ pendingCopies' = RemoveAt(pendingCopies, i)
    /\ statusMessage' = "Clipboard unavailable in this browser."
    /\ setTimeout("copy", 2400)
    /\ UNCHANGED <<config, aiPrompt, aiSummary, clipboard, download, uncaught,
                   nActions, harnessVars>>

IsAlphaNumeric(c) ==
    c # "" /\ \E i \in 1..36 : CharAt("abcdefghijklmnopqrstuvwxyz0123456789", i) = LowerOf(c)

\* value.replace(/[^a-z0-9]+/gi, "-"): every run of other characters
RECURSIVE hyphenate(_)
hyphenate(s) ==
    LET other(c) == ~IsAlphaNumeric(c)
        i == FirstIndex(s, 1, other)
        j == FirstIndex(s, i + 1, IsAlphaNumeric)
    IN  IF i = 0 THEN s
        ELSE IF j = 0 THEN SubSeq(s, 1, i - 1) \o "-"
        ELSE SubSeq(s, 1, i - 1) \o "-" \o hyphenate(SubSeq(s, j, Len(s)))

safeName(projectName) == toLowerCase(hyphenate(projectName))

downloadName(projectName) ==
    (IF safeName(projectName) = "" THEN "building" ELSE safeName(projectName))
        \o "-blender-generator.py"

\* handleDownload has no try block: where the browser refuses the blob, the
\* object URL or the click, the exception leaves the handler
handleDownload ==
    /\ Dispatch
    /\ \/ /\ download' = [name |-> downloadName(config.projectName), content |-> script]
          /\ statusMessage' = "Python file downloaded."
          /\ setTimeout("download", 2400)
          /\ UNCHANGED uncaught
       \/ /\ uncaught' = TRUE
          /\ UNCHANGED <<download, statusMessage, timers>>
    /\ UNCHANGED <<config, aiPrompt, aiSummary, pendingCopies, clipboard,
                   harnessVars>>

\* A pending timer can run when no timer set before it has a delay at most its
\* own (that one expires first); its callback is setStatusMessage(null).
CanFire(i) == \A j \in 1..(i - 1) : timers[j].delay > timers[i].delay

timerFires(i) ==
    /\ phase = "app"
    /\ CanFire(i)
    /\ timers' = RemoveAt(timers, i)
    /\ statusMessage' = null
    /\ UNCHANGED <<config, aiPrompt, aiSummary, pendingCopies, clipboard, download,
                   uncaught, nActions, harnessVars>>

Next ==
    \/ \E field \in TextFields :
          \E text \in (IF field = "projectName" THEN NameTexts ELSE NarrativeTexts) :
             TextOnChange(field, text)
    \/ \E text \in RangeTexts : NumberOnChange("floors", text)
    \/ \E field \in NumberInputs : \E text \in NumberTexts : NumberOnChange(field, text)
    \/ \E field \in SelectFields : \E option \in SelectOptions[field] :
          SelectOnChange(field, option)
    \/ \E field \in BooleanFields : CheckboxOnChange(field)
    \/ \E key \in ColorKeys : \E hex \in ColorTexts : ColorOnChange(key, hex)
    \/ \E text \in PromptTexts : PromptOnChange(text)
    \/ handleApplyAi
    \/ handleReset
    \/ handleCopy
    \/ \E i \in 1..Len(pendingCopies) : clipboardResolves(i)
    \/ \E i \in 1..Len(pendingCopies) : clipboardRejects(i)
    \/ handleDownload
    \/ \E i \in 1..Len(timers) : timerFires(i)

Spec == Init /\ [][Next]_vars

\* the browser's event loop runs every pending timeout in the end
SpecTimersRun ==
    Init /\ [][Next]_vars /\ WF_vars(\E i \in 1..Len(timers) : timerFires(i))

----------------------------------------------------------------------------
(* The pure functions on their own: each specification below draws the     *)
(* arguments of one function from a bounded set and applies the function.  *)

\* one call: output = Result, computed from input
Call(Result) ==
    /\ phase = "ready"
    /\ phase' = "done"
    /\ output' = Result
    /\ UNCHANGED <<input, appVars>>

Ready(Inputs) ==
    /\ AppInit
    /\ phase = "ready"
    /\ output = <<>>
    /\ input \in Inputs

(* updateConfig *)

\* a value of each field's type that no configuration below holds
SampleValue(field) ==
    CASE field \in TextFields -> "Sample"
      [] field \in NumericFields -> 5 * Scale
      [] field \in BooleanFields -> (field = "includeLightShelves")
      [] field = "facadePattern" -> "offset"
      [] field = "balconyFrequency" -> "corners"
      [] field = "roofStyle" -> "sawtooth"

\* a second configuration; its texts, numbers, selections and colors are neither
\* the defaults nor the samples
otherConfig ==
    [f \in Fields |->
        CASE f \in TextFields -> "Other"
          [] f \in NumericFields -> 7 * Scale
          [] f \in BooleanFields -> defaultConfig[f]
          [] f = "facadePattern" -> "stacked"
          [] f = "balconyFrequency" -> "every"
          [] f = "roofStyle" -> "pitched"
          [] f = "colors" -> [k \in ColorKeys |-> "#ffffff"]]

\* overlays of the top-level fields: none, each field alone, all of them
TopOverlays ==
    {NoUpdates} \cup {Only(f, SampleValue(f)) : f \in Fields \ {"colors"}}
        \cup {[f \in Fields \ {"colors"} |-> SampleValue(f)]}

\* overlays of the colors entry: absent, or a sub-record of any of the five keys
ColorOverlays ==
    {NoUpdates} \cup {Only("colors", [k \in keys |-> "#000000"]) : keys \in SUBSET ColorKeys}

MergeInputs ==
    [prev : {defaultConfig, otherConfig},
     partial : {top @@ cols : top \in TopOverlays, cols \in ColorOverlays}]

updateConfigCall == Call(updateConfig(input.prev, input.partial))

SpecMerge == Ready(MergeInputs) /\ [][updateConfigCall]_vars

(* escapePythonString *)

EscapeAlphabet == {"\\", "\"", "a", "\n"}

RECURSIVE TextsOfLength(_)
TextsOfLength(n) ==
    IF n = 0 THEN {""}
    ELSE {s \o c : s \in TextsOfLength(n - 1), c \in EscapeAlphabet}

EscapeInputs == UNION {TextsOfLength(n) : n \in 0..MaxLen}

escapePythonStringCall == Call(escapePythonString(input))

SpecEscape == Ready(EscapeInputs) /\ [][escapePythonStringCall]_vars

(* applyAiInference *)

InferPhrases ==
    {"", "make it calm", "12 floors", "12 stories", "1 floor", "200-storey",
     "Supertall", "tall",
     "mid-rise", "10m wide", "150.5 meters wide", "9 m deep", "slender", "podium",
     "grand lobby", "1 unit", "24 units", "balconies", "every", "corner", "timber",
     "green roof", "glass curtain", "atrium", "solar", "light shelves", "sawtooth"}

InferPrompts ==
    {a \o " " \o b : a \in InferPhrases, b \in InferPhrases}
        \cup {"a mid-rise timber tower with generous balconies and green roof",
              "Balconies on every corner", "", "\n \t"}

\* configurations inside the form's ranges: the default, and one at the ranges' ends
edgeConfig ==
    [defaultConfig EXCEPT !.floors = 80 * Scale, !.width = 12 * Scale,
                          !.depth = 120 * Scale, !.lobbyHeight = 12 * Scale,
                          !.podiumLevels = 1 * Scale, !.unitsPerFloor = 2 * Scale,
                          !.colors = [k \in ColorKeys |-> "#ffffff"]]

\* the default with a floor count below, inside and above [4, 12]; the ranges' ends
InferConfigs ==
    {defaultConfig, edgeConfig}
        \cup {[defaultConfig EXCEPT !.floors = floors * Scale] : floors \in {1, 8}}

InferInputs == [prompt : InferPrompts, current : InferConfigs]

applyAiInferenceCall == Call(applyAiInference(input.prompt, input.current))

SpecInfer == Ready(InferInputs) /\ [][applyAiInferenceCall]_vars

(* colorToPythonTuple *)

ShortDigits == {"0", "8", "f", "A"}

LongPairs == {"00", "ff", "80", "1a", "C4"}

\* hex colors of 3 and of 6 digits, with and without the leading "#"
HexColors ==
    LET short == {a \o b \o c : a \in ShortDigits, b \in ShortDigits, c \in ShortDigits}
        long == {a \o b \o c : a \in LongPairs, b \in LongPairs, c \in LongPairs}
    IN  (short \cup long) \cup {"#" \o hex : hex \in short \cup long}

colorToPythonTupleCall == Call(colorToPythonTuple(input))

SpecColor == Ready(HexColors) /\ [][colorToPythonTupleCall]_vars

(* build, run on the CONFIG compiled from a configuration *)

\* configurations of few floors; widths, depths and modules whose quotient is
\* whole (36 / 3.6, 12 / 6, 12 / 2), fractional (38 / 3.2) and below 3 (12 / 5);
\* a module of 0, as stored when the input is cleared; balcony depths around 0.05
BuildConfigs ==
    {[defaultConfig EXCEPT !.floors = floors * Scale, !.width = width,
                           !.depth = depth, !.windowModule = module,
                           !.balconyDepth = balcony, !.balconyFrequency = frequency] :
        floors \in {3, 4}, width \in {12 * Scale, 36 * Scale, 38 * Scale},
        depth \in {12 * Scale, 20500}, module \in {0, 2 * Scale, 3200, 3600, 5 * Scale, 6 * Scale},
        balcony \in {0, 50, 100, 1200}, frequency \in BalconyFrequencies}

buildCall == Call(build(generateBlenderScript(input)))

SpecBuild == Ready(BuildConfigs) /\ [][buildCall]_vars

(* generateBlenderScript, called twice on one configuration; between the   *)
(* two calls the state of the page other than the configuration moves on.  *)

\* numbers with no, one, two and three decimals, in thousandths
FormatValues == {0, 50, 125, 1005, 2675, 3600, 18000, 119995, 500000}

CompileConfigs ==
    {defaultConfig, otherConfig, edgeConfig}
        \cup {[defaultConfig EXCEPT !.projectName = name, !.narrative = text] :
                 name \in NameTexts, text \in NarrativeTexts \cup {""}}
        \cup {[f \in Fields |-> IF f \in NumericFields THEN value ELSE defaultConfig[f]] :
                 value \in FormatValues}

StatusTexts == {null, "Script copied to clipboard.", "Configuration reset."}

SummaryLogs == {<<>>, <<"Enabled rooftop garden terraces.">>}

generateBlenderScriptCall ==
    /\ phase \in {"ready", "moved"}
    /\ phase' = IF phase = "ready" THEN "once" ELSE "done"
    /\ output' = Append(output, generateBlenderScript(input))
    /\ UNCHANGED <<input, appVars>>

\* setAiPrompt, setStatusMessage and setAiSummary: state the compiler is not given
pageMovesOn ==
    /\ phase = "once"
    /\ phase' = "moved"
    /\ aiPrompt' \in PromptTexts
    /\ statusMessage' \in StatusTexts
    /\ aiSummary' \in SummaryLogs
    /\ UNCHANGED <<config, timers, pendingCopies, clipboard, download, uncaught,
                   nActions, input, output>>

SpecCompile ==
    Ready(CompileConfigs) /\ [][generateBlenderScriptCall \/ pageMovesOn]_vars

----------------------------------------------------------------------------
(* Properties.                                                             *)

\* the step of a handler is known by the timer it sets
ResetStep == timers' = Append(timers, [by |-> "reset", delay |-> 2000])

ApplyStep == timers' = Append(timers, [by |-> "applyAi", delay |-> 2200])

\* C1: in every reachable state of the page every numeric field of the stored
\* configuration lies inside the [min, max] range of its form control.
C1_NumericFieldsInRange ==
    \A f \in NumericFields : InFormRange(f, config[f])

\* C2: every numeric value applyAiInference writes into its overlay lies inside
\* the [min, max] range of the form control of that field.
C2_OverlayInFormRange ==
    phase = "done" =>
        \A f \in DOMAIN output.updates \cap NumericFields :
            InFormRange(f, output.updates[f])

\* C3: when a number input delivers text that is not a valid number (the empty
\* text included), the field it edits is set to the minimum of its range or is
\* left as it was.
C3_InvalidTextStoresMinOrKeeps ==
    [][\A f \in NumberInputs : \A text \in NumberTexts :
          (~IsDecimalLiteral(Trim(text)) /\ NumberOnChange(f, text))
             => (config'[f] = FormRange[f].min \/ config'[f] = config[f])]_vars

\* C4: after updateConfig, each color the overlay's colors sub-record supplies
\* has the overlay's value and every other color has its value from before; an
\* overlay without a colors entry leaves all five as they were.
C4_ColorsMergedKeyByKey ==
    phase = "done" =>
        \A k \in ColorKeys :
            output.colors[k] =
                IF "colors" \in DOMAIN input.partial /\ k \in DOMAIN input.partial.colors
                THEN input.partial.colors[k]
                ELSE input.prev.colors[k]

C4_Witness ==
    /\ phase = "done"
    /\ input.prev = otherConfig
    /\ "colors" \in DOMAIN input.partial
    /\ DOMAIN input.partial.colors = {"accent"}
    /\ output.colors.accent = "#000000"
    /\ \A k \in ColorKeys \ {"accent"} : output.colors[k] = "#ffffff"

\* C5 as stated: updateConfig replaces every top-level field present in the
\* overlay, colors included, with the overlay's value, leaves every absent field
\* as it was, and the result has every field.
C5_EveryPresentFieldReplaced ==
    phase = "done" =>
        /\ DOMAIN output = Fields
        /\ \A f \in Fields :
              output[f] = IF f \in DOMAIN input.partial THEN input.partial[f]
                          ELSE input.prev[f]

\* C5 as amended: updateConfig replaces every top-level field other than colors
\* that is present in the overlay with the overlay's value and leaves every
\* absent field as it was; of colors it replaces the keys the overlay supplies
\* and keeps the others; the result has every field and all five colors.
C5_PresentFieldsReplacedColorsMerged ==
    phase = "done" =>
        /\ DOMAIN output = Fields
        /\ DOMAIN output.colors = ColorKeys
        /\ \A f \in Fields \ {"colors"} :
              output[f] = IF f \in DOMAIN input.partial THEN input.partial[f]
                          ELSE input.prev[f]
        /\ \A k \in ColorKeys :
              output.colors[k] =
                  IF "colors" \in DOMAIN input.partial /\ k \in DOMAIN input.partial.colors
                  THEN input.partial.colors[k]
                  ELSE input.prev.colors[k]

C5_Witness ==
    /\ phase = "done"
    /\ input.prev = otherConfig
    /\ DOMAIN input.partial = {"floors", "colors"}
    /\ DOMAIN input.partial.colors = {"base", "roof"}
    /\ output.floors = 5 * Scale
    /\ output.width = 7 * Scale
    /\ output.colors.base = "#000000"
    /\ output.colors.accent = "#ffffff"

C7_ResetRestoresDefault ==
    [][ResetStep =>
          /\ \A f \in Fields \ {"colors"} : config'[f] = defaultConfig[f]
          /\ \A k \in ColorKeys : config'.colors[k] = defaultConfig.colors[k]]_vars

C7_Witness ==
    /\ statusMessage = "Configuration reset."
    /\ nActions = 2
    /\ config = defaultConfig
    /\ timers = <<[by |-> "reset", delay |-> 2000]>>
    /\ pendingCopies = <<>>

EscapedChar(c) ==
    IF c = "\\" THEN "\\\\" ELSE IF c = "\"" THEN "\\\"" ELSE c

RECURSIVE EscapedText(_)
EscapedText(s) ==
    IF s = "" THEN "" ELSE EscapedChar(CharAt(s, 1)) \o EscapedText(SubSeq(s, 2, Len(s)))

\* C9: escapePythonString returns the text with each backslash doubled, each
\* double quote preceded by one backslash, and every other character copied in
\* order; the backslash put before a quote is not doubled.
C9_EscapesEachCharacterOnce ==
    phase = "done" => output = EscapedText(input)

C9_Witness ==
    /\ phase = "done"
    /\ input = "\"\\a\""
    /\ output = "\\\"\\\\a\\\""

\* text that can stand between the double quotes of a one-line Python string
\* literal: no line break, no double quote and no backslash other than in the
\* pairs backslash-backslash and backslash-quote
RECURSIVE ValidLiteral(_)
ValidLiteral(s) ==
    LET special(c) == c \in {"\\", "\"", "\n", "\r"}
        i == FirstIndex(s, 1, special)
    IN  \/ i = 0
        \/ /\ CharAt(s, i) = "\\"
           /\ CharAt(s, i + 1) \in {"\\", "\""}
           /\ ValidLiteral(SubSeq(s, i + 2, Len(s)))

\* C10: in every reachable state of the page, what the script holds between the
\* double quotes of CONFIG's "project_name" and "narrative" entries is valid as
\* one string literal.
C10_ConfigLiteralsValid ==
    /\ ValidLiteral(script.project_name)
    /\ ValidLiteral(script.narrative)

\* the numeric entries of the script's CONFIG, each with the field it is written from
NumericEntries(CONFIG) ==
    {<<"floors", CONFIG.floors>>,
     <<"unitsPerFloor", CONFIG.units_per_floor>>,
     <<"width", CONFIG.dimensions.width>>,
     <<"depth", CONFIG.dimensions.depth>>,
     <<"floorHeight", CONFIG.dimensions.floor_height>>,
     <<"lobbyHeight", CONFIG.dimensions.lobby_height>>,
     <<"baseHeight", CONFIG.dimensions.base_height>>,
     <<"coreWidth", CONFIG.dimensions.core_width>>,
     <<"coreDepth", CONFIG.dimensions.core_depth>>,
     <<"podiumLevels", CONFIG.dimensions.podium_levels>>,
     <<"podiumSetback", CONFIG.dimensions.podium_setback>>,
     <<"windowModule", CONFIG.facade.module>>,
     <<"windowWidth", CONFIG.facade.window_width>>,
     <<"windowHeight", CONFIG.facade.window_height>>,
     <<"spandrelHeight", CONFIG.facade.spandrel_height>>,
     <<"balconyDepth", CONFIG.facade.balcony_depth>>}

\* text renders value: digits alone, of that whole number, when the value has no
\* fractional part; otherwise digits, a point and exactly two digits, of a
\* hundredth within half a hundredth of the value
Rendered(value, text) ==
    LET n == Len(text)
        whole == SubSeq(text, 1, n - 3)
        cents == SubSeq(text, n - 1, n)
    IN  IF value % Scale = 0
        THEN text # "" /\ AllDigits(text) /\ ParseDigits(text) * Scale = value
        ELSE /\ n >= 4
             /\ CharAt(text, n - 2) = "."
             /\ AllDigits(whole) /\ AllDigits(cents)
             /\ LET tenths == (ParseDigits(whole) * 100 + ParseDigits(cents)) * 10
                IN  tenths - value <= 5 /\ value - tenths <= 5

\* C11: every numeric entry of the compiled CONFIG renders its field as an
\* integer with no decimal point when the field has no fractional part and
\* with exactly two decimal digits otherwise; of the default configuration the
\* floor height 3.6 is rendered "3.60" and the floor count 18 is rendered "18".
C11_NumbersRendered ==
    phase = "done" =>
        /\ \A entry \in NumericEntries(output[2]) : Rendered(input[entry[1]], entry[2])
        /\ input = defaultConfig =>
              /\ output[2].dimensions.floor_height = "3.60"
              /\ output[2].floors = "18"

C11_Witness ==
    /\ phase = "done"
    /\ input = defaultConfig
    /\ output[2].dimensions.floor_height = "3.60"
    /\ output[2].floors = "18"
    /\ output[2].facade.module = "3.20"

\* the n-th byte (1 red, 2 green, 3 blue) a hex color denotes: of six digits
\* the n-th pair, of three digits the n-th digit twice
ByteOf(hex, n) ==
    LET digits == IF CharAt(hex, 1) = "#" THEN SubSeq(hex, 2, Len(hex)) ELSE hex
    IN  IF Len(digits) = 3 THEN 17 * HexVal(CharAt(digits, n))
        ELSE 16 * HexVal(CharAt(digits, 2 * n - 1)) + HexVal(CharAt(digits, 2 * n))

\* text is byte / 255 printed with 4 decimal digits: a digit, a point, four
\* digits, and no other number of ten-thousandths is nearer to byte / 255
Normalized(text, byte) ==
    /\ Len(text) = 6
    /\ IsDigit(CharAt(text, 1)) /\ CharAt(text, 2) = "." /\ AllDigits(SubSeq(text, 3, 6))
    /\ LET n == DigitVal(CharAt(text, 1)) * 10000 + ParseDigits(SubSeq(text, 3, 6))
       IN  2 * (255 * n - 10000 * byte) <= 255 /\ 2 * (10000 * byte - 255 * n) <= 255

\* C12: colorToPythonTuple maps a hex color of 3 or 6 digits, with or without
\* the leading "#", to "(r, g, b, 1.0)", r, g and b being its red, green and
\* blue bytes divided by 255 and printed with 4 decimal digits, a 3-digit
\* color having the bytes of the 6-digit color with each digit doubled; "#f00"
\* and "#ff0000" both give "(1.0000, 0.0000, 0.0000, 1.0)".
C12_TupleOfBytes ==
    phase = "done" =>
        /\ Len(output) = 29
        /\ SubSeq(output, 1, 1) = "("
        /\ Normalized(SubSeq(output, 2, 7), ByteOf(input, 1))
        /\ SubSeq(output, 8, 9) = ", "
        /\ Normalized(SubSeq(output, 10, 15), ByteOf(input, 2))
        /\ SubSeq(output, 16, 17) = ", "
        /\ Normalized(SubSeq(output, 18, 23), ByteOf(input, 3))
        /\ SubSeq(output, 24, 29) = ", 1.0)"
        /\ input \in {"#f00", "#ff0000"} => output = "(1.0000, 0.0000, 0.0000, 1.0)"

C12_Witness ==
    /\ phase = "done"
    /\ input = "#f08"
    /\ output = "(1.0000, 0.0000, 0.5333, 1.0)"

\* floor(a / b) of two numbers of the configuration, b > 0
FloorOfQuotient(a, b) == a \div b

MaxOf(a, b) == IF a > b THEN a ELSE b

\* the floor indices of a building of the configuration's floor count
Levels(cfg) == 0..((cfg.floors \div Scale) - 1)

\* the columns of the balconies created on floor index L
ColumnsAt(balconies, L) == {b.col_index : b \in {x \in balconies : x.level = L}}

\* C13: every balcony build creates is on a floor index L > 0 of a
\* configuration whose balcony frequency is not "none" and whose balcony depth
\* is above 0.05; under these conditions frequency "every" gives every floor
\* L >= 1 a balcony in each column 0..N-1, and frequency "alternate" gives
\* that to the even floor indices and no balcony to the odd ones, N being
\* max(3, floor(width / module)).
C13_BalconyPolicy ==
    (phase = "done" /\ input.windowModule > 0) =>
        LET N == MaxOf(3, FloorOfQuotient(input.width, input.windowModule))
            allowed == input.balconyFrequency # "none" /\ input.balconyDepth > 50
        IN  /\ \A b \in output.balconies : allowed /\ b.level > 0
            /\ (allowed /\ input.balconyFrequency = "every") =>
                  \A L \in Levels(input) \ {0} : ColumnsAt(output.balconies, L) = 0..(N - 1)
            /\ (allowed /\ input.balconyFrequency = "alternate") =>
                  \A L \in Levels(input) \ {0} :
                      ColumnsAt(output.balconies, L) = IF L % 2 = 0 THEN 0..(N - 1) ELSE {}

\* C14: with balcony frequency "corners" (and a balcony depth above 0.05) the
\* column count build uses is max(2, floor(width / module)); every floor
\* index L > 0 gets balconies at exactly the two columns 0 and column count - 1
\* and floor index 0 gets none; width 38 and module 3.2 give 11 columns and
\* balconies at columns 0 and 10.
C14_CornerBalconies ==
    (phase = "done" /\ input.windowModule > 0 /\ input.balconyFrequency = "corners"
        /\ input.balconyDepth > 50) =>
        LET count == MaxOf(2, FloorOfQuotient(input.width, input.windowModule))
        IN  /\ \A b \in output.balconies : b.total_cols = count
            /\ ColumnsAt(output.balconies, 0) = {}
            /\ \A L \in Levels(input) \ {0} :
                  ColumnsAt(output.balconies, L) = {0, count - 1}
            /\ (input.width = 38 * Scale /\ input.windowModule = 3200) => count = 11

\* C15: on every floor and each of the four sides add_windows creates
\* max(1, floor(D / module)) windows, D being the width for front and back and
\* the depth for left and right, module the window module of the configuration.
C15_WindowCounts ==
    (phase = "done" /\ input.windowModule > 0) =>
        /\ DOMAIN output.windows = Levels(input)
        /\ \A L \in DOMAIN output.windows : \A side \in Sides :
              output.windows[L][side] =
                  MaxOf(1, FloorOfQuotient(IF side \in {"front", "back"} THEN input.width
                                           ELSE input.depth,
                                          input.windowModule))

\* C16: applyAiInference given an instruction that is empty or made of white
\* space only returns, for every current configuration, an empty overlay and
\* an empty summary.
C16_BlankInstruction ==
    (phase = "done" /\ \A i \in 1..Len(input.prompt) : CharAt(input.prompt, i) \in WhiteSpace) =>
        /\ DOMAIN output.updates = {}
        /\ output.summary = ""

C16_Witness ==
    /\ phase = "done"
    /\ input.prompt = "\n \t"
    /\ input.current = edgeConfig
    /\ DOMAIN output.updates = {}
    /\ output.summary = ""

\* The 14 triggers in the order of their definition: floor count, width,
\* depth, slender, atrium, podium, garden, solar, balcony, facade palette,
\* light shelves, roof style, lobby, units. FiredGroups tells which of them the
\* instruction fires.
FiredGroups(normalized) ==
    LET has(word) == includes(normalized, word)
    IN  << floorRegex(normalized).found \/ has("supertall") \/ has("tall")
              \/ has("low-rise") \/ has("mid-rise"),
           widthRegex(normalized).found,
           depthRegex(normalized).found,
           has("slender"),
           has("atrium"),
           has("podium"),
           has("garden") \/ has("green roof"),
           has("solar"),
           has("balcon"),
           has("glass curtain") \/ has("brick") \/ has("timber") \/ has("wood"),
           has("light shelves"),
           has("pitched roof") \/ has("sawtooth") \/ has("flat roof"),
           has("generous lobby") \/ has("grand lobby"),
           unitRegex(normalized).found >>

\* the descriptions of each trigger that are fixed texts
GroupTexts ==
    << {"Adjusted height to supertall proportion.", "Raised overall height.",
        "Shaped tower to mid-rise scale."},
       {}, {},
       {"Slenderized the floor plate."},
       {"Enabled multi-level atrium."},
       {"Activated urban podium interface."},
       {"Reserved rooftop for green space."},
       {"Integrated rooftop solar arrays."},
       {"Reconfigured balcony rhythm."},
       {"Shifted to glass curtain wall aesthetic.", "Applied brick-inspired palette.",
        "Shifted to warm timber articulation."},
       {"Added daylight shelves to facade."},
       {"Configured pitched roof profile.", "Configured sawtooth roof profile.",
        "Kept clean flat roofline."},
       {"Expanded lobby volume."},
       {} >>

\* the descriptions of each trigger that hold a number: what stands before
\* and after the number
GroupNumbered ==
    << {[before |-> "Set tower to ", after |-> " floors."]},
       {[before |-> "Adjusted width to ", after |-> "m."]},
       {[before |-> "Adjusted depth to ", after |-> "m."]},
       {}, {}, {}, {}, {}, {}, {}, {}, {}, {},
       {[before |-> "Set ", after |-> " flexible units per typical floor."]} >>

\* the length of the description of trigger g that s begins with, 0 if s
\* begins with none
DescriptionLength(s, g) ==
    LET fixed == {t \in GroupTexts[g] : StartsAt(s, 1, t)}
        numbered == {d \in GroupNumbered[g] :
                        /\ StartsAt(s, 1, d.before)
                        /\ IsDigit(CharAt(s, Len(d.before) + 1))
                        /\ StartsAt(s, DecimalEnd(s, Len(d.before) + 1), d.after)}
    IN  IF fixed # {} THEN Len(CHOOSE t \in fixed : TRUE)
        ELSE IF numbered # {}
        THEN LET d == CHOOSE d \in numbered : TRUE
             IN  DecimalEnd(s, Len(d.before) + 1) + Len(d.after) - 1
        ELSE 0

\* s is, for the triggers g..14 that fired and in their order, one description
\* of each, a single space between two descriptions and nothing else
RECURSIVE InTriggerOrder(_, _, _)
InTriggerOrder(s, g, fired) ==
    IF g > Len(fired) THEN s = ""
    ELSE IF ~fired[g] THEN InTriggerOrder(s, g + 1, fired)
    ELSE LET n == DescriptionLength(s, g)
             rest == SubSeq(s, n + 1, Len(s))
         IN  /\ n > 0
             /\ IF rest = "" THEN InTriggerOrder("", g + 1, fired)
                ELSE /\ CharAt(rest, 1) = " "
                     /\ Len(rest) > 1
                     /\ InTriggerOrder(SubSeq(rest, 2, Len(rest)), g + 1, fired)

\* C17: the summary applyAiInference returns is one description of each
\* trigger that fired, in the order of the triggers' definition, joined by
\* single spaces; it is empty exactly when no trigger fired, and no trigger
\* fired exactly when the overlay is empty.
C17_SummaryInTriggerOrder ==
    phase = "done" =>
        LET fired == FiredGroups(toLowerCase(Trim(input.prompt)))
            none == \A g \in 1..Len(fired) : ~fired[g]
        IN  /\ InTriggerOrder(output.summary, 1, fired)
            /\ (output.summary = "") <=> none
            /\ none <=> (DOMAIN output.updates = {})

C17_Witness ==
    /\ phase = "done"
    /\ input.prompt = "24 units 9 m deep"
    /\ output.summary = "Adjusted depth to 10m. Set 24 flexible units per typical floor."
    /\ DOMAIN output.updates = {"depth", "unitsPerFloor"}

\* the descriptions of the four floor-count triggers, as they begin
FloorDescriptions ==
    [explicit |-> "Set tower to ",
     supertall |-> "Adjusted height to supertall proportion.",
     tall |-> "Raised overall height.",
     midrise |-> "Shaped tower to mid-rise scale."]

\* value held to min..max
Held(value, min, max) == IF value < min THEN min ELSE IF value > max THEN max ELSE value

\* an explicit "N floors / stories / storeys" of an instruction: a number,
\* spaces or hyphens if any, and floor, story, stories or storey; found, and N
ExplicitFloorCount(s) ==
    LET at(i) ==
            /\ IsDigit(CharAt(s, i))
            /\ LET k == SkipChars(s, DigitsEnd(s, i), WhiteSpace \cup {"-"})
               IN  \E word \in {"floor", "story", "stories", "storey"} : StartsAt(s, k, word)
        end(i) == DigitsEnd(s, i)
    IN  LeftmostMatch(s, at, end)

\* C18: at most one floor-count trigger fires. An instruction with an explicit
\* "N floors / stories / storeys" sets the floor count from N and no height
\* keyword has an effect; without one, "supertall" alone fires if present,
\* else "tall" alone, else "low-rise" / "mid-rise" alone, else none and the
\* overlay has no floor count.
C18_OneFloorTrigger ==
    phase = "done" =>
        LET normalized == toLowerCase(Trim(input.prompt))
            has(word) == includes(normalized, word)
            match == ExplicitFloorCount(normalized)
            said == {k \in DOMAIN FloorDescriptions :
                        includes(output.summary, FloorDescriptions[k])}
            floors(value) == "floors" \in DOMAIN output.updates
                                /\ output.updates.floors = value
            current == input.current.floors
        IN  IF match.found
            THEN said = {"explicit"}
                    /\ floors(Held(ParseDigits(match.group) * Scale, 1 * Scale, 80 * Scale))
            ELSE IF has("supertall")
            THEN said = {"supertall"} /\ floors(Held(current + 40 * Scale, 30 * Scale, 120 * Scale))
            ELSE IF has("tall")
            THEN said = {"tall"} /\ floors(Held(current + 8 * Scale, 6 * Scale, 80 * Scale))
            ELSE IF has("low-rise") \/ has("mid-rise")
            THEN said = {"midrise"} /\ floors(Held(current, 4 * Scale, 12 * Scale))
            ELSE said = {} /\ "floors" \notin DOMAIN output.updates

MidRiseTimber == "a mid-rise timber tower with generous balconies and green roof"

\* C19: for every current configuration the instruction "a mid-rise timber
\* tower with generous balconies and green roof" yields an overlay whose floor
\* count is the current one held to [4, 12], whose facade pattern is "offset"
\* with the timber base, accent and glazing colors, whose balcony frequency is
\* "alternate" and whose rooftop garden is on, and a summary of four
\* descriptions: floors, garden, balcony, timber.
C19_MidRiseTimber ==
    (phase = "done" /\ input.prompt = MidRiseTimber) =>
        LET updates == output.updates
        IN  /\ {"floors", "facadePattern", "colors", "balconyFrequency", "addRooftopGarden"}
                  \subseteq DOMAIN updates
            /\ 4 * Scale <= updates.floors /\ updates.floors <= 12 * Scale
            /\ updates.floors = Held(input.current.floors, 4 * Scale, 12 * Scale)
            /\ updates.facadePattern = "offset"
            /\ updates.colors.base = "#8c6b3e"
            /\ updates.colors.accent = "#d9b382"
            /\ updates.colors.glazing = "#9bc1ff"
            /\ updates.balconyFrequency = "alternate"
            /\ updates.addRooftopGarden = TRUE
            /\ output.summary =
                  "Shaped tower to mid-rise scale. Reserved rooftop for green space. "
                     \o "Reconfigured balcony rhythm. Shifted to warm timber articulation."

C19_Witness ==
    /\ phase = "done"
    /\ input.prompt = MidRiseTimber
    /\ input.current.floors = 1 * Scale
    /\ output.updates.floors = 4 * Scale
    /\ output.updates.colors.roof = defaultConfig.colors.roof

\* C20: an instruction with "balcon" sets the balcony frequency to "every" if
\* it has "every" (with or without "corner"), to "corners" if it has "corner"
\* and not "every", and to "alternate" if it has neither; an instruction
\* without "balcon" leaves the balcony frequency out of the overlay.
C20_BalconyKeywords ==
    phase = "done" =>
        LET normalized == toLowerCase(Trim(input.prompt))
            has(word) == \E i \in 1..Len(normalized) : StartsAt(normalized, i, word)
            frequency(value) == "balconyFrequency" \in DOMAIN output.updates
                                   /\ output.updates.balconyFrequency = value
        IN  IF ~has("balcon") THEN "balconyFrequency" \notin DOMAIN output.updates
            ELSE IF has("every") THEN frequency("every")
            ELSE IF has("corner") THEN frequency("corners")
            ELSE frequency("alternate")

C20_Witness ==
    /\ phase = "done"
    /\ input.prompt = "Balconies on every corner"
    /\ output.updates.balconyFrequency = "every"

\* C21: a handleApplyAi step whose instruction yields an empty overlay leaves
\* the configuration (its narrative included), the summary log and the prompt
\* text as they were, raises no exception, and sets the status message
\* "No actionable design moves detected."
C21_EmptyOverlayOnlyInforms ==
    [][(ApplyStep /\ DOMAIN applyAiInference(aiPrompt, config).updates = {}) =>
          /\ config' = config
          /\ aiSummary' = aiSummary
          /\ aiPrompt' = aiPrompt
          /\ uncaught' = uncaught
          /\ statusMessage' = "No actionable design moves detected."]_vars

C21_Witness ==
    /\ statusMessage = "No actionable design moves detected."
    /\ aiPrompt = "make it calm"
    /\ config = defaultConfig
    /\ aiSummary = <<>>
    /\ uncaught = FALSE
    /\ timers = <<[by |-> "applyAi", delay |-> 2200]>>

\* a step of handleCopy (either half) or of handleDownload
CopyOrDownloadStep ==
    \/ pendingCopies' # pendingCopies
    \/ timers' = Append(timers, [by |-> "copy", delay |-> 2400])
    \/ timers' = Append(timers, [by |-> "download", delay |-> 2400])
    \/ uncaught' # uncaught

\* C22: no step leaves an exception uncaught: a failing clipboard write or
\* file save ends in a status message; and every step of handleCopy and of
\* handleDownload, failing or not, leaves the configuration as it was.
C22_CapabilityFailuresReported ==
    [][/\ uncaught' = FALSE
       /\ CopyOrDownloadStep => config' = config]_vars

C24_TimerClearsOwnMessage ==
    [][\A i \in 1..Len(timers) :
          (/\ CanFire(i)
           /\ timers' = RemoveAt(timers, i)
           /\ statusMessage # null
           /\ statusMessage' = null) => i = Len(timers)]_vars

\* C25: while a status message is shown a timer that clears it is pending;
\* once pending timers are run the message becomes null; and a null message
\* stays null until a handler runs (a user event, or the second half of
\* handleCopy).
C25_StatusMessageTransient ==
    /\ [](statusMessage # null => timers # <<>>)
    /\ (statusMessage # null) ~> (statusMessage = null)
    /\ [][(statusMessage = null /\ statusMessage' # null) =>
              \/ nActions' = nActions + 1
              \/ Len(pendingCopies') < Len(pendingCopies)]_vars

C25_Witness ==
    /\ statusMessage = null
    /\ timers = <<>>
    /\ nActions = 2
    /\ aiPrompt = ""
    /\ aiSummary = <<"Set tower to 1 floors. Adjusted width to 10m.">>

====
